---------------------------- MODULE Spec2Model ----------------------------
(***************************************************************************)
(* A model of the iotacoin arithmetic engine:                              *)
(*   - secp256k1/field.rs : FieldElement arithmetic modulo PRIME           *)
(*   - secp256k1/crypto.rs: PrivateKey::create_signature / deterministic_k *)
(*   - curve.rs           : the integer-coordinate Point and its Add       *)
(* The 256-bit constants are scaled to a small curve of the same shape     *)
(* (y^2 = x^3 + 7 over a prime field, prime group order N < PRIME, no      *)
(* point with x = 0), and isize is scaled to IntBits bits.                 *)
(***************************************************************************)
EXTENDS Integers, Sequences, FiniteSets, TLC

VARIABLES
    \* FieldElement workbench (field.rs)
    fa, fb, fop, fout,
    \* PrivateKey and one create_signature call (crypto.rs)
    secret, pub_key, digest, pc, z, K, V, k, result,
    \* integer-coordinate curve workbench (curve.rs)
    overflow_checks, p1, p2, last, prev

fieldVars == <<fa, fb, fop, fout>>
signVars  == <<secret, pub_key, digest, pc, z, K, V, k, result>>
curveVars == <<overflow_checks, p1, p2, last, prev>>
vars == <<fa, fb, fop, fout,
          secret, pub_key, digest, pc, z, K, V, k, result,
          overflow_checks, p1, p2, last, prev>>

(***************************************************************************)
(* Bounds of the model                                                     *)
(***************************************************************************)
\* FieldElement::new is applied to the integers 0..MaxNew
MaxNew == 45
\* a result is fed back as an operand only while it is at most MaxElem
MaxElem == 50
\* exponents given to pow are -MaxExp..MaxExp
MaxExp == 3
\* a 32-byte string read big-endian is an integer 0..MaxHash
MaxHash == 32
\* the keys K of the keyed hash are told apart as 0..MaxKey
MaxKey == 1
\* Point::new is given x in -MaxX..MaxX and y in -MaxY..MaxY or one of the
\* extremes isize::MIN and isize::MAX
MaxX == 3
MaxY == 7
\* a sum is fed back as an operand only while |x|, |y| <= MaxChain
MaxChain == 100
\* width of isize in bits
IntBits == 14

(***************************************************************************)
(* secp256k1/field.rs                                                      *)
(***************************************************************************)
\* PRIME (scaled from 2^256 - 2^32 - 977)
PRIME == 43

\* The value of an operation: a FieldElement's integer, or a panic.
Val(n) == [ok |-> TRUE, v |-> n]
PANIC == [ok |-> FALSE, v |-> 0]

\* BigUint::modpow(exp, modulus)
RECURSIVE ModPow(_, _, _)
ModPow(base, exp, m) ==
    IF exp = 0 THEN 1 % m ELSE (base * ModPow(base, exp - 1, m)) % m

\* FieldElement::new: number.into() % PRIME
FE_new(number) == number % PRIME

\* Zero::zero
FE_zero == 0

\* FieldElement::add_inv: &*PRIME - &self.0 (BigUint subtraction panics
\* when the result would be negative)
add_inv(e) == IF e > PRIME THEN PANIC ELSE Val(PRIME - e)

\* Pow::pow: a negative exponent is taken mod_floor (PRIME - 1)
pow(e, exp) ==
    LET exponent == IF exp >= 0 THEN exp ELSE exp % (PRIME - 1)
    IN  Val(ModPow(e, exponent, PRIME))

\* FieldElement::mul_inv: self.pow(PRIME - 2)
mul_inv(e) == pow(e, PRIME - 2)

\* Add::add: &self.0 + &rhs.0 % &*PRIME   (% binds tighter than +)
add(e, rhs) == Val(e + (rhs % PRIME))

\* Sub::sub: self.add(&rhs.add_inv())
sub(e, rhs) == IF add_inv(rhs).ok THEN add(e, add_inv(rhs).v) ELSE PANIC

\* Mul::mul: (&self.0 * &rhs.0) % &*PRIME
mul(e, rhs) == Val((e * rhs) % PRIME)

\* Div::div: self.mul(&rhs.mul_inv())
div(e, rhs) == mul(e, mul_inv(rhs).v)

FieldOps == {"new", "add", "sub", "mul", "div", "pow", "add_inv", "mul_inv"}

\* let a = FieldElement::new(n)  /  let b = FieldElement::new(n)
FNewA(n) ==
    /\ fa' = FE_new(n)
    /\ fop' = "new"
    /\ fout' = Val(FE_new(n))
    /\ UNCHANGED <<fb, signVars, curveVars>>

FNewB(n) ==
    /\ fb' = FE_new(n)
    /\ fop' = "new"
    /\ fout' = Val(FE_new(n))
    /\ UNCHANGED <<fa, signVars, curveVars>>

FAdd ==
    /\ fop' = "add"
    /\ fout' = add(fa, fb)
    /\ UNCHANGED <<fa, fb, signVars, curveVars>>

FSub ==
    /\ fop' = "sub"
    /\ fout' = sub(fa, fb)
    /\ UNCHANGED <<fa, fb, signVars, curveVars>>

FMul ==
    /\ fop' = "mul"
    /\ fout' = mul(fa, fb)
    /\ UNCHANGED <<fa, fb, signVars, curveVars>>

FDiv ==
    /\ fop' = "div"
    /\ fout' = div(fa, fb)
    /\ UNCHANGED <<fa, fb, signVars, curveVars>>

FPow(exp) ==
    /\ fop' = "pow"
    /\ fout' = pow(fa, exp)
    /\ UNCHANGED <<fa, fb, signVars, curveVars>>

FAddInv ==
    /\ fop' = "add_inv"
    /\ fout' = add_inv(fa)
    /\ UNCHANGED <<fa, fb, signVars, curveVars>>

FMulInv ==
    /\ fop' = "mul_inv"
    /\ fout' = mul_inv(fa)
    /\ UNCHANGED <<fa, fb, signVars, curveVars>>

\* the result of the last operation becomes the left / right operand of the next
FChainA ==
    /\ fout.ok /\ fout.v <= MaxElem
    /\ fa' = fout.v
    /\ fop' = "chain"
    /\ UNCHANGED <<fb, fout, signVars, curveVars>>

FChainB ==
    /\ fout.ok /\ fout.v <= MaxElem
    /\ fb' = fout.v
    /\ fop' = "chain"
    /\ UNCHANGED <<fa, fout, signVars, curveVars>>

FieldInit ==
    /\ fa \in {FE_new(n) : n \in 0..MaxNew}
    /\ fb \in {FE_new(n) : n \in 0..MaxNew}
    /\ fop = "new"
    /\ fout = Val(fa)

FieldIdle ==
    /\ fa = 0 /\ fb = 0 /\ fop = "new" /\ fout = Val(0)

FieldNext ==
    \/ \E n \in 0..MaxNew : FNewA(n)
    \/ \E n \in 0..MaxNew : FNewB(n)
    \/ FAdd
    \/ FSub
    \/ FMul
    \/ FDiv
    \/ \E exp \in (-MaxExp)..MaxExp : FPow(exp)
    \/ FAddInv
    \/ FMulInv
    \/ FChainA
    \/ FChainB

(***************************************************************************)
(* secp256k1: the curve constants and the field-coordinate Point           *)
(* (secp256k1/mod.rs and secp256k1/curve.rs are not among the sources;     *)
(* modelled from the specification, sections 3 and 4.2)                    *)
(***************************************************************************)
\* N, the group order (scaled: the order of y^2 = x^3 + 7 over PRIME)
N == 31

\* a Point: the identity or a pair of reduced coordinates
INFINITY == [inf |-> TRUE, x |-> 0, y |-> 0]
Pt(x, y) == [inf |-> FALSE, x |-> x, y |-> y]

\* G, the base point
G == Pt(2, 12)

\* the multiplicative inverse of a nonzero residue modulo the prime m
InvMod(a, m) == CHOOSE i \in 1..(m - 1) : (a * i) % m = 1

\* the group law of section 4.2 with exact field arithmetic
PointAdd(P1, P2) ==
    IF P1.inf THEN P2
    ELSE IF P2.inf THEN P1
    ELSE IF P1.x = P2.x /\ P1.y # P2.y THEN INFINITY
    ELSE IF P1.x = P2.x /\ P1.y = 0 THEN INFINITY
    ELSE LET slope == IF P1.x = P2.x
                      THEN (3 * P1.x * P1.x * InvMod((2 * P1.y) % PRIME, PRIME)) % PRIME
                      ELSE ((P2.y - P1.y) * InvMod((P2.x - P1.x) % PRIME, PRIME)) % PRIME
             x3 == (slope * slope - P1.x - P2.x) % PRIME
             y3 == (slope * (P1.x - x3) - P1.y) % PRIME
         IN  Pt(x3, y3)

\* scalar * Point by repeated addition
RECURSIVE ScalarMul(_, _)
ScalarMul(scalar, P) ==
    IF scalar = 0 THEN INFINITY ELSE PointAdd(P, ScalarMul(scalar - 1, P))

\* &*G * scalar, for the scalars the model uses
GMul == [scalar \in 0..N |-> ScalarMul(scalar, G)]

(***************************************************************************)
(* secp256k1/crypto.rs: PrivateKey                                         *)
(***************************************************************************)
\* the digest length create_signature requires
DIGEST_LEN == 32

\* a byte string as create_signature sees it: its length and the integer
\* BigUint::from_bytes_be reads from it
Bytes(len, val) == [len |-> len, val |-> val]
NoBytes == Bytes(0, 0)

\* the integers a 32-byte string can hold (scaled from 0..2^256-1)
HashVals == 0..MaxHash

\* the digests handed to create_signature
Digests ==
    {Bytes(DIGEST_LEN, val) : val \in HashVals}
        \cup {Bytes(len, val) : len \in {DIGEST_LEN - 1, DIGEST_LEN + 1}, val \in {1, MaxHash}}
        \cup {NoBytes}

\* the outputs an HMAC-SHA256 computation can have: read big-endian as a
\* candidate (V), or used as the next key (K)
HmacSha256 == HashVals
HmacKey == 0..MaxKey

\* Result<Signature>
NoResult == [tag |-> "none"]
OkSignature(r, s) == [tag |-> "Ok", r |-> r, s |-> s]
ErrInvalidDigestLength(len) == [tag |-> "Err", err |-> "InvalidDigestLength", len |-> len]
ErrOverflowPadding == [tag |-> "Err", err |-> "OverflowPadding"]
Panicked(msg) == [tag |-> "Panic", msg |-> msg]

\* prepend_padding(bytes, 32, 0) succeeds when the value fits 32 bytes
PaddingFits(n) == n <= MaxHash

\* create_signature's guard: digest.len() != 32 is rejected
LengthOkLoose(d) == d.len <= DIGEST_LEN
LengthOk(d) == d.len = DIGEST_LEN

\* low-s normalization: if s > N / 2 { s = N - s }
LowSLoose(s) == IF s >= N \div 2 THEN N - s ELSE s
LowS(s) == IF s > N \div 2 THEN N - s ELSE s

\* PrivateKey::new(secret)
SignInit ==
    /\ secret \in 1..(N - 1)
    /\ pub_key = GMul[secret]
    /\ digest = NoBytes
    /\ pc = "idle"
    /\ z = 0 /\ K = 0 /\ V = 0 /\ k = 0
    /\ result = NoResult

\* create_signature(digest): the length check, lines 128-133
CreateSignature(d) ==
    /\ pc = "idle"
    /\ digest' = d
    /\ IF ~LengthOk(d)
       THEN /\ result' = ErrInvalidDigestLength(d.len)
            /\ pc' = "done"
       ELSE /\ result' = result
            /\ pc' = "deterministic_k"
    /\ UNCHANGED <<secret, pub_key, z, K, V, k, fieldVars, curveVars>>

\* deterministic_k up to the loop: z, the padded secret and the four
\* keyed-hash rounds, lines 152-187
DeterministicK ==
    /\ pc = "deterministic_k"
    /\ IF digest.len # DIGEST_LEN
       THEN \* debug_assert!(digest.len() == 32)
            /\ result' = Panicked("assertion failed")
            /\ pc' = "done"
            /\ UNCHANGED <<z, K, V>>
       ELSE /\ z' = IF digest.val > N THEN digest.val - N ELSE digest.val
            /\ IF ~PaddingFits(secret)
               THEN /\ result' = ErrOverflowPadding
                    /\ pc' = "done"
                    /\ UNCHANGED <<K, V>>
               ELSE \* rounds one and two feed rounds three and four,
                    \* whose outputs are the K and V the loop starts from
                    /\ \E k2 \in HmacKey, v2 \in HmacSha256 :
                            K' = k2 /\ V' = v2
                    /\ pc' = "loop"
                    /\ result' = result
    /\ UNCHANGED <<secret, pub_key, digest, k, fieldVars, curveVars>>

\* one turn of the candidate loop, lines 190-203
DeterministicKLoop ==
    /\ pc = "loop"
    /\ \E candidate \in HmacSha256 :
         \/ /\ candidate >= 1 /\ candidate < N
            /\ k' = candidate
            /\ K' = 0 /\ V' = 0 /\ z' = 0
            /\ pc' = "sign"
         \/ /\ ~(candidate >= 1 /\ candidate < N)
            /\ \E k3 \in HmacKey, v3 \in HmacSha256 : K' = k3 /\ V' = v3
            /\ UNCHANGED <<k, z, pc>>
    /\ UNCHANGED <<secret, pub_key, digest, result, fieldVars, curveVars>>

\* create_signature after deterministic_k returned, lines 134-143
Sign ==
    /\ pc = "sign"
    /\ IF GMul[k].inf
       THEN result' = Panicked("unwrap on None")
       ELSE LET r == GMul[k].x
                k_inv == ModPow(k, N - 2, N)
                s == ((digest.val + r * secret) * k_inv) % N
            IN  result' = OkSignature(r, LowS(s))
    /\ pc' = "done"
    /\ UNCHANGED <<secret, pub_key, digest, z, K, V, k, fieldVars, curveVars>>

SignNext ==
    \/ \E d \in Digests : CreateSignature(d)
    \/ DeterministicK
    \/ DeterministicKLoop
    \/ Sign

SignIdle ==
    /\ secret = 1 /\ pub_key = GMul[1] /\ digest = NoBytes /\ pc = "idle"
    /\ z = 0 /\ K = 0 /\ V = 0 /\ k = 0 /\ result = NoResult

(***************************************************************************)
(* curve.rs: EllipticCurve and Point over isize                            *)
(***************************************************************************)
\* isize: IntBits-bit two's complement
MinInt == -(2 ^ (IntBits - 1))
MaxInt == 2 ^ (IntBits - 1) - 1
Fits(n) == n >= MinInt /\ n <= MaxInt
\* the value a wrapping (overflow-checks off) operation leaves
Wrap(n) == ((n - MinInt) % (2 ^ IntBits)) + MinInt
\* whether one of the raw results of a computation overflowed
Overflowed(raws) == \E n \in raws : ~Fits(n)

Abs(n) == IF n < 0 THEN -n ELSE n
\* isize / isize truncates toward zero
TruncDiv(n, d) ==
    IF (n < 0) = (d < 0) THEN Abs(n) \div Abs(d) ELSE -(Abs(n) \div Abs(d))

\* EllipticCurve::new
EllipticCurve(a, b) == [a |-> a, b |-> b]

\* Point::AtInfinity and Point::Normal(x, y, curve)
AtInfinity == [kind |-> "AtInfinity"]
Normal(x, y, curve) == [kind |-> "Normal", x |-> x, y |-> y, curve |-> curve]

\* Result<Point>, and a panic of the thread
Ok(point) == [tag |-> "Ok", point |-> point]
ErrPointNotInTheCurve(x, y) == [tag |-> "Err", err |-> "PointNotInTheCurve", x |-> x, y |-> y]
ErrPointsNotInTheSameCurve == [tag |-> "Err", err |-> "PointsNotInTheSameCurve"]
Panic(msg) == [tag |-> "Panic", msg |-> msg]

\* what one call did: its result, whether an intermediate result left the
\* isize range, and the division it executed (if any)
Outcome(out, ovf, divided, num, den) ==
    [out |-> out, ovf |-> ovf, divided |-> divided, num |-> num, den |-> den]

\* EllipticCurve::contains: y * y == (x * x * x) + self.a * x + self.b
contains(curve, x, y) ==
    LET yy  == y * y
        xx  == x * x
        xxx == Wrap(xx) * x
        ax  == curve.a * x
        s1  == Wrap(xxx) + Wrap(ax)
        s2  == Wrap(s1) + curve.b
    IN  [ovf |-> Overflowed({yy, xx, xxx, ax, s1, s2}),
         holds |-> Wrap(yy) = Wrap(s2)]

\* Point::new
Point_new(checks, x, y, curve) ==
    LET c == contains(curve, x, y)
    IN  IF checks /\ c.ovf
        THEN [out |-> Panic("arithmetic overflow"), ovf |-> TRUE]
        ELSE IF c.holds
        THEN [out |-> Ok(Normal(x, y, curve)), ovf |-> c.ovf]
        ELSE [out |-> ErrPointNotInTheCurve(x, y), ovf |-> c.ovf]

\* Point::same_curve
same_curve(lhs, rhs) ==
    IF lhs.kind = "Normal" /\ rhs.kind = "Normal"
    THEN lhs.curve = rhs.curve
    ELSE TRUE

\* Add::add from the division on: slope, x3, y3 and Self::new(x3, y3, curve)
\* (lines 94-98 when doubling, lines 103-107 otherwise)
SlopeSum(checks, curve, x1, y1, x2, doubling, raws, num, den) ==
    IF checks /\ Overflowed(raws)
    THEN Outcome(Panic("arithmetic overflow"), TRUE, FALSE, num, den)
    ELSE IF den = 0
    THEN Outcome(Panic("attempt to divide by zero"), Overflowed(raws), TRUE, num, den)
    ELSE IF num = MinInt /\ den = -1
    THEN Outcome(Panic("attempt to divide with overflow"), TRUE, TRUE, num, den)
    ELSE
      LET slope == TruncDiv(num, den)
          ss    == slope * slope
          t     == IF doubling THEN 2 * x1 ELSE Wrap(ss) - x1
          x3raw == IF doubling THEN Wrap(ss) - Wrap(t) ELSE Wrap(t) - x2
          x3    == Wrap(x3raw)
          d     == x1 - x3
          m     == slope * Wrap(d)
          y3raw == Wrap(m) - y1
          y3    == Wrap(y3raw)
          ovf   == Overflowed(raws \cup {ss, t, x3raw, d, m, y3raw})
          made  == Point_new(checks, x3, y3, curve)
      IN  IF checks /\ ovf
          THEN Outcome(Panic("arithmetic overflow"), TRUE, TRUE, num, den)
          ELSE Outcome(made.out, ovf \/ made.ovf, TRUE, num, den)

\* Add::add
Point_add(checks, lhs, rhs) ==
    IF ~same_curve(lhs, rhs)
    THEN Outcome(ErrPointsNotInTheSameCurve, FALSE, FALSE, 0, 0)
    ELSE IF lhs.kind = "AtInfinity" THEN Outcome(Ok(rhs), FALSE, FALSE, 0, 0)
    ELSE IF rhs.kind = "AtInfinity" THEN Outcome(Ok(lhs), FALSE, FALSE, 0, 0)
    ELSE IF lhs.x = rhs.x /\ lhs.y # rhs.y
    THEN Outcome(Ok(AtInfinity), FALSE, FALSE, 0, 0)
    ELSE IF lhs.x = rhs.x /\ lhs.y = rhs.y
    THEN IF lhs.y = 0
         THEN Outcome(Ok(AtInfinity), FALSE, FALSE, 0, 0)
         ELSE LET n1 == 3 * lhs.x
                  n2 == Wrap(n1) * lhs.x
                  n3 == Wrap(n2) + lhs.curve.a
                  d1 == 2 * lhs.y
              IN  SlopeSum(checks, lhs.curve, lhs.x, lhs.y, rhs.x, TRUE,
                           {n1, n2, n3, d1}, Wrap(n3), Wrap(d1))
    ELSE LET n1 == rhs.y - lhs.y
             d1 == rhs.x - lhs.x
         IN  SlopeSum(checks, lhs.curve, lhs.x, lhs.y, rhs.x, FALSE,
                      {n1, d1}, Wrap(n1), Wrap(d1))

\* the inputs of the workbench
Curves == {EllipticCurve(5, 7), EllipticCurve(5, 0)}
XCoords == (-MaxX)..MaxX
YCoords == ((-MaxY)..MaxY) \cup {MinInt, MaxInt}

NoCall == [op |-> "none"]
NewCall(made) == [op |-> "new", tag |-> made.out.tag, ovf |-> made.ovf]
AddCall(lhs, rhs, o) ==
    [op |-> "add", lhs |-> lhs, rhs |-> rhs, out |-> o.out, ovf |-> o.ovf,
     divided |-> o.divided, num |-> o.num, den |-> o.den]

CurveInit ==
    /\ overflow_checks \in BOOLEAN
    /\ p1 = AtInfinity /\ p2 = AtInfinity
    /\ last = NoCall /\ prev = NoCall

\* let p1 = Point::new(x, y, curve)?
NewP1(x, y, curve) ==
    LET made == Point_new(overflow_checks, x, y, curve)
    IN  /\ p1' = IF made.out.tag = "Ok" THEN made.out.point ELSE p1
        /\ last' = NewCall(made)
        /\ prev' = NoCall
        /\ UNCHANGED <<overflow_checks, p2, fieldVars, signVars>>

\* let p2 = p1   (Point is Copy)
CopyP1 ==
    /\ p2' = p1
    /\ last' = NoCall /\ prev' = NoCall
    /\ UNCHANGED <<overflow_checks, p1, fieldVars, signVars>>

\* let p1 = Point::at_infinity()
InfP1 ==
    /\ p1' = AtInfinity
    /\ last' = NoCall /\ prev' = NoCall
    /\ UNCHANGED <<overflow_checks, p2, fieldVars, signVars>>

\* lhs.add(rhs), the operands being the two points at hand in any order
AddPoints(lhs, rhs) ==
    /\ last' = AddCall(lhs, rhs, Point_add(overflow_checks, lhs, rhs))
    /\ prev' = last
    /\ UNCHANGED <<overflow_checks, p1, p2, fieldVars, signVars>>

\* let p2 = lhs.add(rhs)?
ChainP2 ==
    /\ last.op = "add" /\ last.out.tag = "Ok"
    /\ last.out.point.kind = "Normal"
    /\ Abs(last.out.point.x) <= MaxChain /\ Abs(last.out.point.y) <= MaxChain
    /\ p2' = last.out.point
    /\ last' = NoCall /\ prev' = NoCall
    /\ UNCHANGED <<overflow_checks, p1, fieldVars, signVars>>

CurveNext ==
    \/ \E x \in XCoords, y \in YCoords, curve \in Curves : NewP1(x, y, curve)
    \/ CopyP1
    \/ InfP1
    \/ \E lhs \in {p1, p2}, rhs \in {p1, p2} : AddPoints(lhs, rhs)
    \/ ChainP2

CurveIdle ==
    /\ overflow_checks = FALSE /\ p1 = AtInfinity /\ p2 = AtInfinity
    /\ last = NoCall /\ prev = NoCall

InitField == FieldInit /\ SignIdle /\ CurveIdle
SpecField == InitField /\ [][FieldNext]_vars

\* C1: every FieldElement an operation returns from reduced operands holds
\* an integer v with 0 <= v < PRIME (and no operation panics).
C1_ResultsReduced ==
    (fop \in FieldOps /\ fa < PRIME /\ fb < PRIME)
        => (fout.ok /\ fout.v >= 0 /\ fout.v < PRIME)

\* C2: for every reduced e (0 included) e + add_inv(e) and e - e compare
\* equal to FieldElement::zero(), and add_inv(e) is PRIME - e for e # 0 and
\* 0 for e = 0.
C2_AddInvSumsToZero ==
    /\ (fop = "add" /\ fa < PRIME /\ Val(fb) = add_inv(fa))
           => fout = Val(FE_zero)
    /\ (fop = "sub" /\ fa < PRIME /\ fb = fa)
           => fout = Val(FE_zero)
    /\ (fop = "add_inv" /\ fa < PRIME)
           => fout = Val(IF fa = 0 THEN 0 ELSE PRIME - fa)

InitSign == SignInit /\ FieldIdle /\ CurveIdle
SpecSign == InitSign /\ [][SignNext]_vars

\* the s of line 138 before normalization, with the true inverse of k
RawS == ((digest.val + result.r * secret) * InvMod(k, N)) % N

\* C3: every signature create_signature returns has 0 < r < N and 0 < s < N.
C3_ComponentsInRange ==
    result.tag = "Ok"
        => (0 < result.r /\ result.r < N /\ 0 < result.s /\ result.s < N)

\* C4: every returned signature has s <= N/2; s is N - s0 when
\* s0 = (z + r*secret) * k^-1 mod N exceeds N/2, and s0 otherwise.
C4_LowS ==
    result.tag = "Ok"
        => /\ result.s <= N \div 2
           /\ result.s = IF RawS > N \div 2 THEN N - RawS ELSE RawS

C4_Witness == result.tag = "Ok" /\ RawS > N \div 2 /\ result.s = N - RawS

\* C5: a digest whose length is not 32 yields InvalidDigestLength carrying
\* the length and no signature, and deterministic_k (and what follows it)
\* is never entered with such a digest.
C5_LengthChecked ==
    /\ pc \in {"deterministic_k", "loop", "sign"} => digest.len = DIGEST_LEN
    /\ (pc = "done" /\ digest.len # DIGEST_LEN)
           => result = ErrInvalidDigestLength(digest.len)

C5_Witness ==
    /\ pc = "done" /\ digest.len = DIGEST_LEN - 1
    /\ result = ErrInvalidDigestLength(DIGEST_LEN - 1)

InitCurve == CurveInit /\ FieldIdle /\ SignIdle
SpecCurve == InitCurve /\ [][CurveNext]_vars

\* a point whose coordinates satisfy the curve equation over the integers
OnCurve(p) ==
    p.kind = "Normal" =>
        /\ Abs(p.x) <= MaxChain /\ Abs(p.y) <= MaxChain
        /\ p.y * p.y = p.x * p.x * p.x + p.curve.a * p.x + p.curve.b

\* an add of two valid points of one curve in which no isize overflowed
ValidAdd(call) ==
    /\ call.op = "add"
    /\ OnCurve(call.lhs) /\ OnCurve(call.rhs)
    /\ same_curve(call.lhs, call.rhs)
    /\ ~call.ovf

\* C6: add on two valid points of the same curve returns Ok with the
\* identity or a Normal point on the curve, never an error.
C6_AddClosed ==
    ValidAdd(last) =>
        /\ last.out.tag = "Ok"
        /\ OnCurve(last.out.point)

\* C7: whenever add on two valid points computes a slope, the divisor
\* divides the numerator exactly.
C7_SlopeExact ==
    (ValidAdd(last) /\ last.divided /\ last.den # 0)
        => last.num % Abs(last.den) = 0

\* C8: for valid points A and B of the same curve A.add(B) and B.add(A)
\* have the same outcome.
C8_AddCommutes ==
    (/\ ValidAdd(last) /\ ValidAdd(prev)
     /\ last.lhs = prev.rhs /\ last.rhs = prev.lhs)
        => /\ last.out.tag = prev.out.tag
           /\ last.out.tag = "Ok" => last.out.point = prev.out.point

\* C10: add never divides by zero: for two Normal points of the same curve
\* the slope divisor (2*y1 for equal points, x2 - x1 otherwise) is zero
\* exactly when the case is one that returns the identity.
C10_NoDivisionByZero ==
    (/\ last.op = "add"
     /\ last.lhs.kind = "Normal" /\ last.rhs.kind = "Normal"
     /\ same_curve(last.lhs, last.rhs))
        => LET x1 == last.lhs.x
               y1 == last.lhs.y
               x2 == last.rhs.x
               y2 == last.rhs.y
               divisor == IF x1 = x2 /\ y1 = y2 THEN Wrap(2 * y1) ELSE Wrap(x2 - x1)
               special == (x1 = x2 /\ y1 # y2) \/ (x1 = x2 /\ y1 = y2 /\ y1 = 0)
           IN  /\ (divisor = 0) <=> special
               /\ last.divided => last.den # 0
               /\ last.out # Panic("attempt to divide by zero")

=============================================================================
